---- MODULE Spec2Model ----
(***************************************************************************)
(* Model of Attrezo-py.py: an asynchronous scraper of the Atrezzo Vazquez  *)
(* catalogue.  main(paginas) launches one sopa_atrezzo task per page in    *)
(* range(1, paginas), gathers the parsed documents, runs                   *)
(* llenar_diccionario on each and concatenates the resulting DataFrames.   *)
(*                                                                         *)
(* A parsed document is a sequence of elements in document order:          *)
(*   product  div.product-slide-entry.shift-image, with the texts of its   *)
(*            a.title and a.tag children, its nested div.product-image     *)
(*            blocks and the texts of its nested <p> elements;             *)
(*   section  div.cat-sec-box, with its text;                              *)
(*   p        a <p> outside every product block, with its text;            *)
(*   image    a div.product-image outside every product block, with the    *)
(*            src attributes of its <img> children ("None" = no src);      *)
(*   other    any other markup.                                            *)
(* A DataFrame is a record of its five columns.                            *)
(***************************************************************************)
EXTENDS Integers, Sequences, FiniteSets, TLC

\* descripciones_productos[:48] and limit=48 in the URL
PageSize == 48

\* the status fetch_async_url compares against
HTTP_OK == 200

\* largest page count passed to main
MaxPaginas == 3

\* longest repeated unit, most repetitions below PageSize, longest tail of a generated document
MaxUnit == 2
MaxRep == 1
MaxTail == 1

\* np.nan and Python's None as cell values
NaN == "NaN"
None == "None"

VARIABLES
    pc,          \* position of main (or of the direct call of llenar_diccionario)
    paginas,     \* argument of main
    tareas,      \* main: the page index of every task, in submission order
    est,         \* per task: "created", "pending", "done", "failed"
    peticiones,  \* per page index: number of GET requests issued
    respuesta,   \* per task: the response the server gave
    resultado,   \* per task: what sopa_atrezzo returned
    orden,       \* task indices in completion order
    sopas,       \* main: result of asyncio.gather
    idx,         \* main: position of the for loop over sopas (1-based)
    sopa,        \* argument of the current / last llenar_diccionario call
    listas,      \* llenar_diccionario: the five field lists it built
    df_atrezzo,  \* result of the last llenar_diccionario call
    df_list,     \* main: DataFrames collected so far
    df_completo, \* main: the returned DataFrame
    error        \* the exception that left main / llenar_diccionario, or "none"

vars == <<pc, paginas, tareas, est, peticiones, respuesta, resultado, orden, sopas,
          idx, sopa, listas, df_atrezzo, df_list, df_completo, error>>

----------------------------------------------------------------------------
\* Elements of a document

Prod(t, g, im, pa) == [kind |-> "product", titles |-> t, tags |-> g, imgs |-> im, paras |-> pa]
Sec(x) == [kind |-> "section", text |-> x]
Par(x) == [kind |-> "p", text |-> x]
Img(s) == [kind |-> "image", srcs |-> s]
Other == [kind |-> "other"]

Min(a, b) == IF a < b THEN a ELSE b

RECURSIVE Flatten(_)
Flatten(ss) == IF ss = <<>> THEN <<>> ELSE Head(ss) \o Flatten(Tail(ss))

RECURSIVE Repeat(_, _)
Repeat(u, n) == IF n = 0 THEN <<>> ELSE u \o Repeat(u, n - 1)

----------------------------------------------------------------------------
\* BeautifulSoup queries (findAll returns matches in document order)

\* BeautifulSoup(html_content, "html.parser")
BeautifulSoup(html_content) == [isNone |-> FALSE, tree |-> html_content]

\* the None a coroutine returns when it falls off its end
NoneSoup == [isNone |-> TRUE, tree |-> <<>>]

\* sopa.findAll("div", {"class": "product-slide-entry shift-image"})
findAll_product(tree) == SelectSeq(tree, LAMBDA e : e.kind = "product")

\* sopa.findAll("div", {"class": "cat-sec-box"})
findAll_section(tree) == SelectSeq(tree, LAMBDA e : e.kind = "section")

\* sopa.findAll("p"): texts of the <p> elements, nested ones included
findAll_p(tree) ==
    Flatten([i \in 1..Len(tree) |->
        IF tree[i].kind = "p" THEN <<tree[i].text>>
        ELSE IF tree[i].kind = "product" THEN tree[i].paras
        ELSE <<>>])

\* sopa.findAll("div", {"class": "product-image"}): nested ones included
findAll_image(tree) ==
    Flatten([i \in 1..Len(tree) |->
        IF tree[i].kind = "image" THEN <<tree[i]>>
        ELSE IF tree[i].kind = "product" THEN tree[i].imgs
        ELSE <<>>])

----------------------------------------------------------------------------
\* llenar_diccionario

\* lines 74-78: try: findAll("a", class title)[0].getText() / except: nan
nombre_de(producto) == IF producto.titles = <<>> THEN NaN ELSE producto.titles[1]

\* lines 80-84: try: findAll("a", class tag)[0].getText() / except: nan
categoria_de(producto) == IF producto.tags = <<>> THEN NaN ELSE producto.tags[1]

\* a plausible bug: one try around both fields, so a missing title skips the category
bucle_productos_un_try(lista_prod_cat) ==
    [nombres |-> [i \in 1..Len(lista_prod_cat) |-> nombre_de(lista_prod_cat[i])],
     categorias |->
        LET conTitulo == SelectSeq(lista_prod_cat, LAMBDA p : p.titles # <<>>)
        IN [i \in 1..Len(conTitulo) |-> categoria_de(conTitulo[i])]]

\* lines 70-84: the loop over the product blocks
bucle_productos(lista_prod_cat) ==
    [nombres |-> [i \in 1..Len(lista_prod_cat) |-> nombre_de(lista_prod_cat[i])],
     categorias |-> [i \in 1..Len(lista_prod_cat) |-> categoria_de(lista_prod_cat[i])]]

\* a plausible bug: the test is len(text) > 0
bucle_secciones_mayor_que_cero(lista_secciones) ==
    [i \in 1..Len(lista_secciones) |->
        IF Len(lista_secciones[i].text) > 0 THEN lista_secciones[i].text ELSE NaN]

\* lines 87-93: the loop over the section blocks
bucle_secciones(lista_secciones) ==
    [i \in 1..Len(lista_secciones) |->
        IF Len(lista_secciones[i].text) > 1 THEN lista_secciones[i].text ELSE NaN]

\* a plausible bug: the slice keeps the last PageSize paragraphs
bucle_descripciones_ultimas(lista_descripciones) ==
    SubSeq(lista_descripciones,
           Len(lista_descripciones) - Min(Len(lista_descripciones), PageSize) + 1,
           Len(lista_descripciones))

\* lines 96-100: the loop over the paragraphs and the slice [:48]
bucle_descripciones(lista_descripciones) ==
    SubSeq(lista_descripciones, 1, Min(Len(lista_descripciones), PageSize))

\* lines 103-110: try: findAll("img")[0].get("src") / except: nan
bucle_imagenes(lista_imagenes) ==
    [i \in 1..Len(lista_imagenes) |->
        IF lista_imagenes[i].srcs = <<>> THEN NaN ELSE lista_imagenes[i].srcs[1]]

\* the five lists of lines 69-110
listas_de(tree) ==
    LET prod == bucle_productos(findAll_product(tree))
    IN [nombre |-> prod.nombres,
        categoria |-> prod.categorias,
        descripcion |-> bucle_descripciones(findAll_p(tree)),
        seccion |-> bucle_secciones(findAll_section(tree)),
        url |-> bucle_imagenes(findAll_image(tree))]

EmptyDF == [nombre |-> <<>>, categoria |-> <<>>, descripcion |-> <<>>, seccion |-> <<>>, url |-> <<>>]

Raised(e) == [ok |-> FALSE, exc |-> e, df |-> EmptyDF]
Returned(d) == [ok |-> TRUE, exc |-> "none", df |-> d]

\* a plausible bug: the lengths of the lists are not compared
pd_DataFrame_sin_comprobar(cols) == Returned(cols)

\* lines 112-118: pd.DataFrame(dict of lists) raises ValueError unless all lists
\* have the same length
pd_DataFrame(cols) ==
    IF /\ Len(cols.nombre) = Len(cols.categoria)
       /\ Len(cols.nombre) = Len(cols.descripcion)
       /\ Len(cols.nombre) = Len(cols.seccion)
       /\ Len(cols.nombre) = Len(cols.url)
    THEN Returned(cols)
    ELSE Raised("ValueError")

\* lines 53-119; on None the first findAll raises AttributeError
llenar_diccionario(sopa_atrezzo_) ==
    IF sopa_atrezzo_.isNone THEN Raised("AttributeError")
    ELSE pd_DataFrame(listas_de(sopa_atrezzo_.tree))

----------------------------------------------------------------------------
\* concat_df

ConcatCols(dfs) ==
    [nombre |-> Flatten([i \in 1..Len(dfs) |-> dfs[i].nombre]),
     categoria |-> Flatten([i \in 1..Len(dfs) |-> dfs[i].categoria]),
     descripcion |-> Flatten([i \in 1..Len(dfs) |-> dfs[i].descripcion]),
     seccion |-> Flatten([i \in 1..Len(dfs) |-> dfs[i].seccion]),
     url |-> Flatten([i \in 1..Len(dfs) |-> dfs[i].url])]

\* lines 122-133: pd.concat raises ValueError("No objects to concatenate") on []
concat_df(dfs) ==
    IF dfs = <<>> THEN Raised("ValueError") ELSE Returned(ConcatCols(dfs))

----------------------------------------------------------------------------
\* fetch_async_url and sopa_atrezzo

\* lines 28-33: the status is only printed; the body is returned whatever it is
fetch_async_url(status, body) == body

\* lines 47-50: parse a truthy body, fall off the end (None) otherwise
sopa_atrezzo(status, body) ==
    LET html_content == fetch_async_url(status, body)
    IN IF html_content # <<>> THEN BeautifulSoup(html_content) ELSE NoneSoup

----------------------------------------------------------------------------
\* What the server answers

\* texts of page p differ from those of every other page
Txt(prefix, p, suffix) == prefix \o ToString(p) \o suffix

ProdCompleto(p, k) ==
    Prod(<<Txt("n", p, k)>>, <<Txt("c", p, k)>>, <<Img(<<Txt("u", p, k)>>)>>, <<Txt("d", p, k)>>)

Variantes == {"good", "big", "mal", "vacio", "otro"}

\* the markup of page p: two aligned products (the second without title and
\* without <img>), PageSize aligned products followed by one more paragraph,
\* one product with two paragraphs, an empty body, or markup with no match
Serve(p, variante) ==
    CASE variante = "good" ->
            <<ProdCompleto(p, "a"), Sec(Txt("s", p, "a")),
              Prod(<<>>, <<Txt("c", p, "b")>>, <<Img(<<>>)>>, <<Txt("d", p, "b")>>), Sec("")>>
      [] variante = "big" ->
            Repeat(<<ProdCompleto(p, "r"), Sec(Txt("s", p, "r"))>>, PageSize)
                \o <<Par(Txt("d", p, "z"))>>
      [] variante = "mal" ->
            <<ProdCompleto(p, "m"), Sec(Txt("s", p, "m")), Par(Txt("d", p, "x"))>>
      [] variante = "vacio" -> <<>>
      [] OTHER -> <<Other>>

ConnectionError == [kind |-> "error", status |-> 0, body |-> <<>>]

\* what the server may answer for page p: status 200 with any markup, or status
\* 404 with a page of products or with markup that matches nothing
Respuestas(p) ==
    {[kind |-> "resp", status |-> HTTP_OK, body |-> Serve(p, v)] : v \in Variantes}
    \cup {[kind |-> "resp", status |-> 404, body |-> Serve(p, v)] : v \in {"good", "otro"}}

----------------------------------------------------------------------------
\* main

\* a plausible bug: the upper bound is included
range_inclusive(a, b) == [i \in 1..(IF b >= a THEN b - a + 1 ELSE 0) |-> a + i - 1]

\* range(a, b) as a sequence
range_(a, b) == [i \in 1..(IF b > a THEN b - a ELSE 0) |-> a + i - 1]

\* a plausible bug: results collected as the tasks complete
gather_as_completed(res, ord) == [i \in 1..Len(ord) |-> res[ord[i]]]

\* asyncio.gather(*tareas): the results in the order of the awaitables
gather(res, ord) == [i \in 1..Len(ord) |-> res[i]]

\* the rows a table with unequal lists would have if cut to its shortest list
Parcial(s) ==
    LET c == listas_de(s.tree)
        n == Min(Min(Len(c.nombre), Len(c.categoria)),
                 Min(Len(c.descripcion), Min(Len(c.seccion), Len(c.url))))
    IN [nombre |-> SubSeq(c.nombre, 1, n), categoria |-> SubSeq(c.categoria, 1, n),
        descripcion |-> SubSeq(c.descripcion, 1, n), seccion |-> SubSeq(c.seccion, 1, n),
        url |-> SubSeq(c.url, 1, n)]

\* a plausible bug: a page whose extraction fails leaves a partial table behind
paso_bucle_parcial(lista, s) ==
    LET r == llenar_diccionario(s)
    IN IF r.ok THEN Append(lista, r.df)
       ELSE IF s.isNone THEN lista ELSE Append(lista, Parcial(s))

\* lines 156-160: try: df_list.append(llenar_diccionario(sopa)) / except: print
paso_bucle(lista, s) ==
    LET r == llenar_diccionario(s)
    IN IF r.ok THEN Append(lista, r.df) ELSE lista

NoListas == EmptyDF
NoResp == [kind |-> "none", status |-> 0, body |-> <<>>]

InitComun ==
    /\ tareas = <<>>
    /\ est = <<>>
    /\ peticiones = [n \in 0..(MaxPaginas + 1) |-> 0]
    /\ respuesta = <<>>
    /\ resultado = <<>>
    /\ orden = <<>>
    /\ sopas = <<>>
    /\ idx = 1
    /\ listas = NoListas
    /\ df_atrezzo = Returned(EmptyDF)
    /\ df_list = <<>>
    /\ df_completo = EmptyDF
    /\ error = "none"

Init ==
    /\ pc = "start"
    /\ paginas \in 0..MaxPaginas
    /\ sopa = NoneSoup
    /\ InitComun

\* lines 147-152: build the coroutines and hand them to asyncio.gather
CrearTareas ==
    /\ pc = "start"
    /\ tareas' = range_(1, paginas)
    /\ est' = [i \in 1..Len(tareas') |-> "created"]
    /\ respuesta' = [i \in 1..Len(tareas') |-> NoResp]
    /\ resultado' = [i \in 1..Len(tareas') |-> NoneSoup]
    /\ pc' = "gather"
    /\ UNCHANGED <<paginas, peticiones, orden, sopas, idx, sopa, listas, df_atrezzo,
                   df_list, df_completo, error>>

\* lines 47-48, 28: a task's first step issues its GET; the event loop runs the
\* first steps in submission order before it polls for any response
IniciarTarea(i) ==
    /\ pc = "gather"
    /\ est[i] = "created"
    /\ \A j \in 1..(i - 1) : est[j] # "created"
    /\ est' = [est EXCEPT ![i] = "pending"]
    /\ peticiones' = [peticiones EXCEPT ![tareas[i]] = @ + 1]
    /\ UNCHANGED <<pc, paginas, tareas, respuesta, resultado, orden, sopas, idx, sopa,
                   listas, df_atrezzo, df_list, df_completo, error>>

\* lines 28-33, 48-50: the response of task i arrives and the task returns
ResponderTarea(i, r) ==
    /\ pc = "gather"
    /\ est[i] = "pending"
    /\ \A j \in 1..Len(tareas) : est[j] \notin {"created", "failed"}
    /\ est' = [est EXCEPT ![i] = "done"]
    /\ respuesta' = [respuesta EXCEPT ![i] = r]
    /\ resultado' = [resultado EXCEPT ![i] = sopa_atrezzo(r.status, r.body)]
    /\ orden' = Append(orden, i)
    /\ UNCHANGED <<pc, paginas, tareas, peticiones, sopas, idx, sopa, listas, df_atrezzo,
                   df_list, df_completo, error>>

\* line 28: session.get raises aiohttp.ClientError in task i
FallarTarea(i) ==
    /\ pc = "gather"
    /\ est[i] = "pending"
    /\ \A j \in 1..Len(tareas) : est[j] \notin {"created", "failed"}
    /\ est' = [est EXCEPT ![i] = "failed"]
    /\ respuesta' = [respuesta EXCEPT ![i] = ConnectionError]
    /\ orden' = Append(orden, i)
    /\ UNCHANGED <<pc, paginas, tareas, peticiones, resultado, sopas, idx, sopa, listas,
                   df_atrezzo, df_list, df_completo, error>>

\* line 152: every task has returned; gather hands back their results
GatherReturn ==
    /\ pc = "gather"
    /\ \A j \in 1..Len(tareas) : est[j] = "done"
    /\ sopas' = gather(resultado, orden)
    /\ idx' = 1
    /\ df_list' = <<>>
    /\ pc' = "extract"
    /\ UNCHANGED <<paginas, tareas, est, peticiones, respuesta, resultado, orden, sopa,
                   listas, df_atrezzo, df_completo, error>>

\* line 152: gather (return_exceptions=False) re-raises the first exception of a
\* task; nothing in main catches it
GatherRaise ==
    /\ pc = "gather"
    /\ \E j \in 1..Len(tareas) : est[j] = "failed"
    /\ pc' = "raised"
    /\ error' = "ClientError"
    /\ UNCHANGED <<paginas, tareas, est, peticiones, respuesta, resultado, orden, sopas,
                   idx, sopa, listas, df_atrezzo, df_list, df_completo>>

\* lines 155-160: one iteration of the loop over sopas
ExtraerPagina ==
    /\ pc = "extract"
    /\ idx <= Len(sopas)
    /\ sopa' = sopas[idx]
    /\ listas' = IF sopas[idx].isNone THEN listas ELSE listas_de(sopas[idx].tree)
    /\ df_atrezzo' = IF llenar_diccionario(sopas[idx]).ok
                     THEN llenar_diccionario(sopas[idx]) ELSE df_atrezzo
    /\ df_list' = paso_bucle(df_list, sopas[idx])
    /\ idx' = idx + 1
    /\ UNCHANGED <<pc, paginas, tareas, est, peticiones, respuesta, resultado, orden,
                   sopas, df_completo, error>>

\* lines 162-163: concat_df(df_list) returns the combined table
ConcatReturn ==
    /\ pc = "extract"
    /\ idx > Len(sopas)
    /\ concat_df(df_list).ok
    /\ df_completo' = concat_df(df_list).df
    /\ pc' = "done"
    /\ UNCHANGED <<paginas, tareas, est, peticiones, respuesta, resultado, orden, sopas,
                   idx, sopa, listas, df_atrezzo, df_list, error>>

\* line 162: pd.concat raises on an empty list; nothing in main catches it
ConcatRaise ==
    /\ pc = "extract"
    /\ idx > Len(sopas)
    /\ ~concat_df(df_list).ok
    /\ pc' = "raised"
    /\ error' = concat_df(df_list).exc
    /\ UNCHANGED <<paginas, tareas, est, peticiones, respuesta, resultado, orden, sopas,
                   idx, sopa, listas, df_atrezzo, df_list, df_completo>>

Next ==
    \/ CrearTareas
    \/ \E i \in 1..Len(tareas) : IniciarTarea(i)
    \/ \E i \in 1..Len(tareas) : \E r \in Respuestas(tareas[i]) : ResponderTarea(i, r)
    \/ \E i \in 1..Len(tareas) : FallarTarea(i)
    \/ GatherReturn
    \/ GatherRaise
    \/ ExtraerPagina
    \/ ConcatReturn
    \/ ConcatRaise

Spec == Init /\ [][Next]_vars

----------------------------------------------------------------------------
\* llenar_diccionario called directly on a generated document

\* elements a generated document is made of
Elems ==
    {ProdCompleto(1, "a"),
     Prod(<<>>, <<"c2">>, <<>>, <<>>),
     Prod(<<"n3", "n3b">>, <<>>, <<Img(<<>>)>>, <<"d3">>),
     Sec("s4"),
     Sec("x"),
     Par("d6"),
     Img(<<None, "u7">>),
     Other}

\* elements that may follow the repeated part
TailElems == {Par("d8"), Sec(""), Img(<<"u9">>), Prod(<<"n0">>, <<"c0">>, <<>>, <<>>)}

SeqsUpTo(S, n) == UNION {[1..k -> S] : k \in 0..n}

\* how often the unit is repeated: a few times, or once per slot of a full page
Reps == (0..MaxRep) \cup {PageSize}

\* a unit repeated, then a tail
Documentos ==
    {Repeat(u, r) \o t : u \in SeqsUpTo(Elems, MaxUnit) \ {<<>>}, r \in Reps,
                         t \in SeqsUpTo(TailElems, MaxTail)}

InitExtract ==
    /\ pc = "call"
    /\ paginas = 0
    /\ sopa \in {BeautifulSoup(d) : d \in Documentos} \cup {NoneSoup}
    /\ InitComun

\* lines 53-119: one call of llenar_diccionario(sopa)
Llenar ==
    /\ pc = "call"
    /\ listas' = IF sopa.isNone THEN listas ELSE listas_de(sopa.tree)
    /\ df_atrezzo' = llenar_diccionario(sopa)
    /\ pc' = IF df_atrezzo'.ok THEN "returned" ELSE "raised"
    /\ error' = df_atrezzo'.exc
    /\ UNCHANGED <<paginas, tareas, est, peticiones, respuesta, resultado, orden, sopas,
                   idx, sopa, df_list, df_completo>>

NextExtract == Llenar

SpecExtract == InitExtract /\ [][NextExtract]_vars

----------------------------------------------------------------------------
\* Properties

\* the Page Table of a parsed document: empty when llenar_diccionario raises
TablaDe(s) == IF llenar_diccionario(s).ok THEN llenar_diccionario(s).df ELSE EmptyDF

\* the paragraph texts the server can put on page p
TextosDe(p) == {Txt("d", p, k) : k \in {"a", "b", "r", "z", "m", "x"}}

\* the page a description comes from
PaginaDe(t) == CHOOSE p \in 1..(MaxPaginas + 1) : t \in TextosDe(p)

Called == pc \in {"returned", "raised"} /\ ~sopa.isNone

ColumnasIguales(d) ==
    /\ Len(d.nombre) = Len(d.categoria)
    /\ Len(d.nombre) = Len(d.descripcion)
    /\ Len(d.nombre) = Len(d.seccion)
    /\ Len(d.nombre) = Len(d.url)

\* (number of product blocks) = (number of section blocks) = (number of
\* image-container blocks) = min(number of paragraph elements, 48)
Alineada(s) ==
    /\ ~s.isNone
    /\ Len(findAll_product(s.tree)) = Len(findAll_section(s.tree))
    /\ Len(findAll_product(s.tree)) = Len(findAll_image(s.tree))
    /\ Len(findAll_product(s.tree)) =
         (IF Len(findAll_p(s.tree)) < PageSize THEN Len(findAll_p(s.tree)) ELSE PageSize)

\* C1: when main returns, every page whose fetch answered a status other than
\* 200 produced no parsed document and none of its texts is in the Combined Table.
C1_PaginaNo200SinFilas ==
    pc = "done" =>
        \A i \in 1..Len(tareas) :
            respuesta[i].status # HTTP_OK =>
                /\ resultado[i].isNone
                /\ \A r \in 1..Len(df_completo.descripcion) :
                       df_completo.descripcion[r] \notin TextosDe(tareas[i])

\* C2: main never terminates by raising, whatever the page count and the
\* outcome of each page.
C2_MainNuncaLanza == pc # "raised"

\* C3: the Combined Table main returns is the concatenation of the Page Tables
\* in ascending page index, whatever order the fetches completed in: rows of a
\* lower page index precede rows of a higher one.
C3_OrdenPorPagina ==
    pc = "done" =>
        /\ df_completo =
             ConcatCols([i \in 1..Len(tareas) |->
                 TablaDe(sopa_atrezzo(respuesta[i].status, respuesta[i].body))])
        /\ \A i \in 1..Len(tareas) : tareas[i] = i
        /\ \A r \in 1..(Len(df_completo.descripcion) - 1) :
               PaginaDe(df_completo.descripcion[r]) <= PaginaDe(df_completo.descripcion[r + 1])

\* C3 witness: page 2 completed before page 1, both contributed rows, and the
\* rows of page 1 come first.
C3_Witness ==
    /\ pc = "done"
    /\ orden = <<2, 1>>
    /\ respuesta[1].body = Serve(1, "good")
    /\ respuesta[2].body = Serve(2, "good")
    /\ df_completo.descripcion =
         <<Txt("d", 1, "a"), Txt("d", 1, "b"), Txt("d", 2, "a"), Txt("d", 2, "b")>>

C5_KFilas ==
    (Called /\ Len(findAll_p(sopa.tree)) >= PageSize) =>
        LET prods == findAll_product(sopa.tree)
        IN /\ df_atrezzo.ok
           /\ Len(df_atrezzo.df.nombre) = Len(prods)
           /\ Len(df_atrezzo.df.categoria) = Len(prods)
           /\ Len(df_atrezzo.df.url) = Len(prods)
           /\ \A i \in 1..Len(prods) :
                  /\ df_atrezzo.df.nombre[i] = nombre_de(prods[i])
                  /\ df_atrezzo.df.categoria[i] = categoria_de(prods[i])
                  /\ df_atrezzo.df.url[i] =
                       (IF prods[i].imgs = <<>> \/ prods[i].imgs[1].srcs = <<>>
                        THEN NaN ELSE prods[i].imgs[1].srcs[1])

\* C6: a page whose extraction raises leaves nothing in df_list and the loop
\* goes on: df_list holds, in order, the complete Page Table of every page
\* processed so far whose extraction succeeded, and the returned table is their
\* concatenation, with no text of a dropped page in it.
C6_PaginaDescartada ==
    pc \in {"extract", "done"} =>
        /\ df_list =
             LET hechas == SelectSeq([j \in 1..(idx - 1) |-> llenar_diccionario(sopas[j])],
                                     LAMBDA r : r.ok)
             IN [k \in 1..Len(hechas) |-> hechas[k].df]
        /\ pc = "done" =>
             /\ idx = Len(sopas) + 1
             /\ df_completo = ConcatCols(df_list)
             /\ \A j \in 1..Len(sopas) :
                    ~llenar_diccionario(sopas[j]).ok =>
                        \A r \in 1..Len(df_completo.descripcion) :
                            df_completo.descripcion[r] \notin TextosDe(tareas[j])

\* C6 witness: the extraction of page 1 raised on non-empty markup, the loop
\* went on, and the returned table is the complete Page Table of page 2.
C6_Witness ==
    /\ pc = "done"
    /\ Len(sopas) = 2
    /\ respuesta[1].body = Serve(1, "mal")
    /\ ~llenar_diccionario(sopas[1]).ok
    /\ df_completo = TablaDe(sopas[2])
    /\ df_completo.descripcion = <<Txt("d", 2, "a"), Txt("d", 2, "b")>>

\* C7: llenar_diccionario appends exactly one name and one category per product
\* block; the name is null exactly when the block has no title element, the
\* category is null exactly when it has no tag element, and otherwise each is
\* the text of the block's first such element.
C7_AislamientoCampos ==
    Called =>
        LET prods == findAll_product(sopa.tree)
        IN /\ Len(listas.nombre) = Len(prods)
           /\ Len(listas.categoria) = Len(prods)
           /\ \A i \in 1..Len(prods) :
                  /\ listas.nombre[i] = NaN <=> prods[i].titles = <<>>
                  /\ prods[i].titles # <<>> => listas.nombre[i] = prods[i].titles[1]
                  /\ listas.categoria[i] = NaN <=> prods[i].tags = <<>>
                  /\ prods[i].tags # <<>> => listas.categoria[i] = prods[i].tags[1]

\* C7 witness: a block without title still got its category, and a later block
\* without tag still got its name.
C7_Witness ==
    /\ Called
    /\ \E i, j \in 1..Len(listas.nombre) :
           /\ i < j
           /\ listas.nombre[i] = NaN /\ listas.categoria[i] # NaN
           /\ listas.nombre[j] # NaN /\ listas.categoria[j] = NaN

\* C8: the description list is the texts of the first 48 paragraphs in document
\* order when there are more than 48, and of all of them otherwise.
C8_Truncamiento ==
    Called =>
        LET ps == findAll_p(sopa.tree)
        IN /\ Len(listas.descripcion) = (IF Len(ps) > PageSize THEN PageSize ELSE Len(ps))
           /\ \A i \in 1..Len(listas.descripcion) : listas.descripcion[i] = ps[i]

\* C8 witness: more than 48 paragraphs, the 49th unlike the first, 48 kept.
C8_Witness ==
    /\ Called
    /\ Len(findAll_p(sopa.tree)) > PageSize
    /\ findAll_p(sopa.tree)[PageSize + 1] # findAll_p(sopa.tree)[1]
    /\ Len(listas.descripcion) = PageSize

\* C9: the section list has one entry per section block, in document order:
\* null when the block's text has length <= 1, the text itself otherwise.
C9_Seccion ==
    Called =>
        LET ss == findAll_section(sopa.tree)
        IN /\ Len(listas.seccion) = Len(ss)
           /\ \A i \in 1..Len(ss) :
                  listas.seccion[i] = (IF Len(ss[i].text) <= 1 THEN NaN ELSE ss[i].text)

\* C9 witness: a section of length 1 became null and a longer one was kept.
C9_Witness ==
    /\ Called
    /\ \E i, j \in 1..Len(listas.seccion) :
           /\ Len(findAll_section(sopa.tree)[i].text) = 1 /\ listas.seccion[i] = NaN
           /\ Len(findAll_section(sopa.tree)[j].text) > 1 /\ listas.seccion[j] # NaN

\* C10: every table in df_list has five columns of one length; the pages that
\* reached df_list are exactly the processed pages whose block counts agree
\* (products = sections = image containers = min(paragraphs, 48)), every other
\* page being dropped; the returned table has five columns of one length.
C10_Alineacion ==
    pc \in {"extract", "done", "raised"} =>
        /\ \A t \in 1..Len(df_list) : ColumnasIguales(df_list[t])
        /\ Len(df_list) = Cardinality({j \in 1..(idx - 1) : Alineada(sopas[j])})
        /\ \A j \in 1..(idx - 1) : Alineada(sopas[j]) <=> llenar_diccionario(sopas[j]).ok
        /\ pc = "done" => ColumnasIguales(df_completo)

\* C10 witness: a page with 49 paragraphs and 48 of every block was kept, a
\* page with one product and two paragraphs was dropped.
C10_Witness ==
    /\ pc = "done"
    /\ \E i, j \in 1..Len(sopas) :
           /\ respuesta[i].body = Serve(i, "big")
           /\ respuesta[j].body = Serve(j, "mal")
    /\ Len(df_completo.nombre) = PageSize

====
